---- MODULE Spec2Model ----
(***************************************************************************)
(* Model of the Claude Code HTTP facade (src/test-api.sh holds both        *)
(* servers: the SDK server, lines 50-322, and the CLI server, lines        *)
(* 323-674).  One request is followed from its arrival to its response,    *)
(* together with the backend execution it starts.                          *)
(*                                                                         *)
(* Texts are sequences of tokens.  "NL" is a newline, "SP" whitespace,     *)
(* "O1"/"O2" the opening half of a serialized JSON object (it begins with  *)
(* a brace), "C1"/"C2" the closing half, every other token a piece of      *)
(* plain text.                                                             *)
(***************************************************************************)
EXTENDS Integers, Sequences, FiniteSets, TLC

VARIABLES
    server,      \* which of the two servers of the file is running
    req,         \* the HTTP request: endpoint, Authorization header, body
    hpc,         \* position of the request handler
    resp,        \* the HTTP response (status 0: none sent yet)
    crashed,     \* the server process died of an uncaught exception
    effects,     \* executions started: processes spawned, SDK queries, diffs
    plan,        \* what the backend would print on stdout if left to finish
    pos,         \* how many tokens of plan have been delivered as 'data'
    proc,        \* claudeProcess: "none", "running", "exited", "closed"
    exitCode,    \* the code the 'close' event carries
    killed,      \* claudeProcess.killed
    signals,     \* signals the process actually received
    timers,      \* the timers of the execution
    output,      \* let output
    errorOutput, \* let errorOutput
    jsonOutput,  \* let jsonOutput
    promise,     \* the promise executeClaudeCode returns
    closePc,     \* position of the async 'close' handler
    parsed,      \* history: the payloads JSON.parse returned, in order
    stream,      \* the messages the SDK query will yield, and how it ends
    spos,        \* how many messages the for-await loop has consumed
    sdk,         \* locals of executeClaudeCodeWithSDK: result, totalCost, turns
    testDir,     \* the test endpoint's scratch directory
    boot,        \* startup: is ANTHROPIC_API_KEY set, how the server was launched, how far it got
    git,         \* one run of getGitDiff
    ex,          \* two executions in flight at once: the locals of each
    last,        \* history: the execution the latest event belonged to
    probe,       \* a GET /health request sent while executions are in flight
    summary,     \* what a call of extractSummaryFromOutput returned
    scratch      \* the clock Date.now() reads, the directories in /tmp, and the
                 \* name each test request gave its testDir

vars == <<server, req, hpc, resp, crashed, effects, plan, pos, proc, exitCode,
          killed, signals, timers, output, errorOutput, jsonOutput, promise,
          closePc, parsed, stream, spos, sdk, testDir, boot, git, ex, last, probe,
          summary, scratch>>

httpVars == <<server, req, testDir>>
cliVars  == <<plan, pos, proc, exitCode, killed, signals, timers, output,
              errorOutput, jsonOutput, closePc, parsed>>
sdkVars  == <<stream, spos, sdk>>
\* the variables of one request and its execution
mainVars == <<server, req, hpc, resp, crashed, effects, plan, pos, proc, exitCode,
              killed, signals, timers, output, errorOutput, jsonOutput, promise,
              closePc, parsed, stream, spos, sdk, testDir>>
concVars == <<ex, last, probe>>
auxVars  == <<boot, git, concVars, summary, scratch>>

----------------------------------------------------------------------------
(* Bounds *)

MaxLines == 2       \* lines in the backend's planned stdout
MaxErrChunks == 1   \* 'data' events on stderr
MaxMsgs == 2        \* messages in an SDK stream
MaxFiles == 3       \* lines the diff tool prints
MaxSummaryLines == 3  \* lines of the output a summary is extracted from
MaxClock == 1       \* milliseconds that pass while test requests are in flight

----------------------------------------------------------------------------
(* Texts *)

NoText == <<>>

RECURSIVE Trim(_)
\* String.prototype.trim()
Trim(s) ==
    IF s = <<>> THEN <<>>
    ELSE IF Head(s) \in {"SP", "NL"} THEN Trim(Tail(s))
    ELSE IF s[Len(s)] \in {"SP", "NL"} THEN Trim(SubSeq(s, 1, Len(s) - 1))
    ELSE s

RECURSIVE Split(_)
\* String.prototype.split('\n')
Split(s) ==
    IF \A i \in 1..Len(s) : s[i] # "NL" THEN <<s>>
    ELSE LET i == CHOOSE j \in 1..Len(s) :
                     s[j] = "NL" /\ \A k \in 1..(j - 1) : s[k] # "NL"
         IN  <<SubSeq(s, 1, i - 1)>> \o Split(SubSeq(s, i + 1, Len(s)))

RECURSIVE SelectNonBlank(_)
\* .filter(line => line.trim())
SelectNonBlank(ls) ==
    IF ls = <<>> THEN <<>>
    ELSE IF Trim(Head(ls)) # <<>> THEN <<Head(ls)>> \o SelectNonBlank(Tail(ls))
    ELSE SelectNonBlank(Tail(ls))

RECURSIVE Join(_)
\* lines written one after the other, each ended by a newline
Join(ls) == IF ls = <<>> THEN <<>> ELSE Head(ls) \o <<"NL">> \o Join(Tail(ls))

----------------------------------------------------------------------------
(* Structured payloads *)

\* a field the object does not have
Absent == -1

\* let jsonOutput = null
Null == [tag |-> "null", result |-> NoText, message |-> NoText,
         total_cost_usd |-> Absent, num_turns |-> Absent]
\* what `claude -p --output-format json` prints: an object with a result field,
\* the cost and the number of turns
P1 == [tag |-> "obj", result |-> <<"r1">>, message |-> NoText,
       total_cost_usd |-> 2, num_turns |-> 3]
\* an object that carries a message field as well, and neither cost nor turns
P2 == [tag |-> "obj", result |-> <<"r2">>, message |-> <<"m2">>,
       total_cost_usd |-> Absent, num_turns |-> Absent]

\* line.startsWith('{')
StartsWithBrace(line) == line # <<>> /\ Head(line) \in {"O1", "O2"}

\* JSON.parse(line) returns (it throws on anything else)
JsonParses(line) == Trim(line) \in {<<"O1", "C1">>, <<"O2", "C2">>}
JsonParse(line) == IF Trim(line) = <<"O1", "C1">> THEN P1 ELSE P2

RECURSIVE ScanLines(_, _)
\* for (const line of lines) { if (line.startsWith('{')) { try { jsonOutput = JSON.parse(line) } catch {} } }
ScanLines(lines, jo) ==
    IF lines = <<>> THEN jo
    ELSE LET line == Head(lines)
         IN  ScanLines(Tail(lines),
                       IF StartsWithBrace(line) /\ JsonParses(line)
                       THEN JsonParse(line) ELSE jo)

RECURSIVE ParsedIn(_)
\* the values JSON.parse returns for the lines of a list, in order
ParsedIn(lines) ==
    IF lines = <<>> THEN <<>>
    ELSE (IF StartsWithBrace(Head(lines)) /\ JsonParses(Head(lines))
          THEN <<JsonParse(Head(lines))>> ELSE <<>>) \o ParsedIn(Tail(lines))

\* the stdout 'data' handler's effect on jsonOutput
ParseChunk(chunk, jo) == ScanLines(SelectNonBlank(Split(chunk)), jo)

\* const summaryPatterns = [/^I've .+/i, /^I have .+/i, ...], in the array's order
summaryPatterns == <<"I've", "I have", "Successfully", "Completed", "Created",
                     "Updated", "Fixed", "Added">>

\* the i flag: the phrase a word spells when case is ignored
Phrase(word) ==
    CASE word \in {"Created", "created"} -> "Created"
      [] word \in {"Fixed", "FIXED"} -> "Fixed"
      [] word \in {"I've", "I have", "Successfully", "Completed", "Updated", "Added"} -> word
      [] OTHER -> "none"

\* pattern.test(line) for /^<phrase> .+/i: the phrase, a space, one character at least
Test(pattern, line) ==
    Len(line) >= 3 /\ Phrase(line[1]) = pattern /\ line[2] = "SP"

MatchesSummaryPattern(line) ==
    \E i \in DOMAIN summaryPatterns : Test(summaryPatterns[i], line)

RECURSIVE FirstMatchOfPattern(_, _)
FirstMatchOfPattern(pattern, lines) ==
    IF lines = <<>> THEN NoText
    ELSE IF Test(pattern, Head(lines)) THEN Head(lines)
    ELSE FirstMatchOfPattern(pattern, Tail(lines))

RECURSIVE FirstPatternMatch(_, _)
FirstPatternMatch(patterns, lines) ==
    IF patterns = <<>> THEN NoText
    ELSE IF FirstMatchOfPattern(Head(patterns), lines) # NoText
         THEN FirstMatchOfPattern(Head(patterns), lines)
    ELSE FirstPatternMatch(Tail(patterns), lines)

\* faulty variant: the loops nested the other way, patterns outside and lines inside
FirstMatchPatternsFirst(lines) == FirstPatternMatch(summaryPatterns, lines)

RECURSIVE FirstMatch(_)
\* for (const line of lines) for (const pattern of summaryPatterns) if (pattern.test(line)) return line
FirstMatch(lines) ==
    IF lines = <<>> THEN NoText
    ELSE IF MatchesSummaryPattern(Head(lines)) THEN Head(lines)
    ELSE FirstMatch(Tail(lines))

TaskCompleted == <<"Task completed">>

\* extractSummaryFromOutput has not been called
NoSummary == [returned |-> FALSE, text |-> NoText]

extractSummaryFromOutput(out) ==
    LET lines == SelectNonBlank(Split(out))
    IN  IF FirstMatch(lines) # NoText THEN FirstMatch(lines)
        ELSE IF lines # <<>> THEN lines[1]
        ELSE TaskCompleted

\* let summary = ...; if (jsonOutput && jsonOutput.message) ... else ...
SummaryOf(jo, out) ==
    IF jo.tag # "null" /\ jo.message # NoText THEN jo.message
    ELSE extractSummaryFromOutput(out)

----------------------------------------------------------------------------
(* Inputs *)

Endpoints == {"health", "execute", "validate", "test"}

\* the Authorization header: absent, some other value, `Bearer ${API_KEY}`
AuthHeaders == {"absent", "wrong", "ok"}

\* codebase_path of the body: not given, a path that does not exist, a directory
Paths == {"absent", "missing", "exists"}

\* only the execute endpoint reads the body
Requests ==
    { [endpoint |-> "execute", auth |-> a, task |-> t, path |-> p] :
        a \in AuthHeaders, t \in BOOLEAN, p \in Paths }
    \cup
    { [endpoint |-> e, auth |-> a, task |-> FALSE, path |-> "absent"] :
        e \in Endpoints \ {"execute"}, a \in AuthHeaders }

LineSet == { <<"O1", "C1">>, <<"O2", "C2">>, <<"O1">>, <<"Created", "SP", "x">>,
             <<"Plain">>, <<"SP">> }

Plans == { Join(ls) : ls \in UNION { [1..n -> LineSet] : n \in 0..MaxLines } }

\* SDK messages: a 'result' message, an 'error' message, any other kind
ResultMsgs ==
    { [type |-> "result", subtype |-> st, is_error |-> ie, result |-> r,
       error |-> NoText, total_cost_usd |-> c[1], num_turns |-> c[2]] :
        st \in {"success", "error_during_execution"}, ie \in BOOLEAN,
        r \in {NoText, <<"r1">>}, c \in {<<Absent, Absent>>, <<2, 3>>} }

ErrorMsg == [type |-> "error", subtype |-> "", is_error |-> TRUE, result |-> NoText,
             error |-> <<"e1">>, total_cost_usd |-> Absent, num_turns |-> Absent]

OtherMsg == [type |-> "assistant", subtype |-> "", is_error |-> FALSE,
             result |-> NoText, error |-> NoText, total_cost_usd |-> Absent,
             num_turns |-> Absent]

Msgs == ResultMsgs \cup {ErrorMsg, OtherMsg}

\* the async iterator query() returns: its messages, and then it finishes,
\* throws, or yields nothing more for ever
Streams ==
    { [msgs |-> m, end |-> e] :
        m \in UNION { [1..n -> Msgs] : n \in 0..MaxMsgs },
        e \in {"done", "throw", "hang"} }

NoStream == [msgs |-> <<>>, end |-> "done"]

NoSdk == [pc |-> "idle", result |-> NoText, totalCost |-> 0, turns |-> 0]

\* what getGitDiff resolves with
Changes == { <<"diff unavailable">>, <<"no changes">>, <<"changed files">> }

----------------------------------------------------------------------------
(* Values *)

\* no test request has named a directory yet
NoName == -1
NoScratch == [now |-> 0, dirs |-> {}, name |-> [i \in 0..2 |-> NoName]]

NoResponse == [status |-> 0, success |-> "absent", result |-> NoText,
               error |-> NoText, details |-> NoText, errorOutput |-> NoText,
               code |-> "unset", changes |-> NoText, cost |-> Absent, turns |-> Absent]

\* a promise not yet created
NoPromise == [state |-> "none", success |-> "absent", result |-> NoText,
              error |-> NoText, details |-> NoText, errorOutput |-> NoText,
              code |-> "unset", changes |-> NoText, cost |-> Absent, turns |-> Absent]

Pending == [NoPromise EXCEPT !.state = "pending"]

NoTimers == [spawnTimeout |-> "none", timeoutHandler |-> "none",
             ceilingReject |-> "none", grace |-> "none"]

ExecutionFailed == <<"Claude Code execution failed">>
TimeoutExceeded == <<"Execution timeout exceeded">>
FailedToExecute == <<"Failed to execute Claude Code">>
Unauthorized    == <<"Unauthorized">>
MissingParams   == <<"Missing required parameters: task and codebase_path">>
ENOENT          == <<"ENOENT: no such file or directory">>

\* faulty variant: a later resolve or reject replaces the outcome already delivered
SettleAgain(p, v) == v

\* resolve(v) and reject(v) settle a pending promise and do nothing to a settled one
Settle(p, v) == IF p.state = "pending" THEN v ELSE p

\* faulty variant: the rejection drops the captured stderr text
CloseRejectionNoStderr(code, err) ==
    [NoPromise EXCEPT !.state = "rejected",
                      !.error = <<"Claude Code execution failed">>, !.code = code]

\* reject({ error: 'Claude Code execution failed', code, output, errorOutput })
CloseRejection(code, err) ==
    [Pending EXCEPT !.state = "rejected", !.error = ExecutionFailed,
                    !.code = code, !.errorOutput = err]

\* faulty variant: a diff that could not be taken turns the success into a failure
CloseResolutionDiffFails(jo, out, changes) ==
    IF changes = <<"diff unavailable">>
    THEN [Pending EXCEPT !.state = "rejected", !.error = <<"Unable to get diff">>]
    ELSE [Pending EXCEPT !.state = "resolved", !.success = "true",
                         !.result = SummaryOf(jo, out), !.changes = changes,
                         !.code = "zero"]

\* resolve({ success: true, taskId, summary, changes, output, executionTime })
CloseResolution(jo, out, changes) ==
    [Pending EXCEPT !.state = "resolved", !.success = "true",
                    !.result = SummaryOf(jo, out), !.changes = changes,
                    !.code = "zero"]

\* reject({ error: 'Execution timeout exceeded' })
TimeoutRejection == [Pending EXCEPT !.state = "rejected", !.error = TimeoutExceeded]

----------------------------------------------------------------------------
(* The event loop *)

\* A settled promise resumes the awaiting handler in a microtask, which runs
\* before the next timer or I/O callback.
MicrotaskPending == hpc = "executing" /\ promise.state \in {"resolved", "rejected"}

CeilingTimers == {"spawnTimeout", "timeoutHandler", "ceilingReject"}

\* faulty variant: the ceiling timers do not expire together (as with unequal delays),
\* so I/O callbacks run between them
TimersPhaseSplit == FALSE

\* The three ceiling timers are created in one synchronous block with the same
\* delay: they sit on one timer list and expire together, and the timers phase
\* runs them in the order of their creation with no I/O callback in between.
InTimersPhase ==
    /\ \E t \in CeilingTimers : timers[t] = "fired"
    /\ \E t \in CeilingTimers : timers[t] = "pending"

Up == ~crashed /\ ~MicrotaskPending
IOReady == Up /\ ~InTimersPhase

----------------------------------------------------------------------------
(* Startup *)

\* The server is started by the container's entrypoint.sh or by node directly.
Launches == {"entrypoint", "node"}

\* A server that got through startup with the credential set.
Listening == [key |-> TRUE, launch |-> "node", status |-> "listening"]

\* entrypoint.sh: if [ -z "$ANTHROPIC_API_KEY" ]; then ... exit 1; fi ... exec node
EntrypointCheck ==
    /\ boot.launch = "entrypoint" /\ boot.status = "start"
    /\ boot' = [boot EXCEPT !.status = IF boot.key THEN "node" ELSE "exited"]
    /\ UNCHANGED <<mainVars, git, concVars, summary, scratch>>

\* The module body of the server, up to app.listen. The SDK server exits when
\* the credential is missing; the CLI server only warns inside the listen callback.
ServerStart ==
    /\ \/ boot.launch = "node" /\ boot.status = "start"
       \/ boot.status = "node"
    /\ boot' = [boot EXCEPT !.status = IF server = "sdk" /\ ~boot.key
                                         THEN "exited" ELSE "listening"]
    /\ UNCHANGED <<mainVars, git, concVars, summary, scratch>>

----------------------------------------------------------------------------
(* The change detector: getGitDiff *)

\* what the diff tool meets in the working directory
GitEnvs == {"not installed", "not a repository", "clean", "changed", "hang"}

\* lines the diff tool prints: a path each (a path may begin or end with a
\* space, or be nothing but a space)
GitLineSet == { <<"a">>, <<"b">>, <<"SP", "c">>, <<"d", "SP">>, <<"SP">> }

\* the tool's stdout: every line ends with a newline
GitOutputs ==
    { ls \in UNION { [1..n -> GitLineSet] : n \in 1..MaxFiles } :
        \A i, j \in DOMAIN ls : i # j => ls[i] # ls[j] }

NoChangeSet == [settled |-> FALSE, hasChanges |-> FALSE, changedFiles |-> <<>>,
                error |-> NoText, text |-> NoText]

NoGit == [pc |-> "idle", env |-> "clean", plan |-> <<>>, output |-> <<>>,
          events |-> <<>>, result |-> NoChangeSet]

\* faulty variant: a later resolve() replaces the record
GitResolveAgain(r) == [r EXCEPT !.settled = TRUE]

\* resolve() of getGitDiff's promise: only the first call settles it
GitResolve(r) == IF git.result.settled THEN git.result ELSE [r EXCEPT !.settled = TRUE]

\* faulty variant: the lines are not filtered
HasChangesNoFilter(out) ==
    [NoChangeSet EXCEPT !.hasChanges = TRUE, !.changedFiles = Split(Trim(out))]

\* resolve({ hasChanges: true, changedFiles: output.trim().split('\n').filter(f => f.trim()) })
HasChanges(out) ==
    [NoChangeSet EXCEPT !.hasChanges = TRUE,
                        !.changedFiles = SelectNonBlank(Split(Trim(out)))]

\* resolve({ hasChanges: false, changedFiles: [] })
HasNoChanges == NoChangeSet

\* resolve({ hasChanges: false, changedFiles: [], error: 'Git not available' })
GitNotAvailable == [NoChangeSet EXCEPT !.error = <<"Git not available">>]

\* resolve('Unable to get diff') and resolve(stdout || 'No changes detected')
UnableToGetDiff == [NoChangeSet EXCEPT !.text = <<"Unable to get diff">>]
DiffText(stdout) ==
    [NoChangeSet EXCEPT !.text = IF stdout = <<>> THEN <<"No changes detected">>
                                                  ELSE stdout]

\* spawn('git', ['diff', '--name-only'], ...) and exec('git diff --stat && git status --short', ...)
GitStart ==
    /\ git.pc = "start"
    /\ \E e \in GitEnvs :
         \E ls \in (IF e = "changed" THEN GitOutputs ELSE {<<>>}) :
            git' = [git EXCEPT !.pc = "running", !.env = e, !.plan = ls]
    /\ UNCHANGED <<mainVars, boot, concVars, summary, scratch>>

\* gitProcess.stdout.on('data', ...): output += data.toString()
GitStdoutData ==
    /\ git.pc = "running" /\ server = "sdk" /\ git.plan # <<>>
    /\ git' = [git EXCEPT !.output = @ \o Head(git.plan) \o <<"NL">>,
                          !.plan = Tail(@)]
    /\ UNCHANGED <<mainVars, boot, concVars, summary, scratch>>

\* gitProcess.on('error', ...): the tool could not be spawned. The two
\* listeners are registered independently of each other; 'error' is delivered
\* once, before or after 'close'
GitError ==
    /\ git.pc \in {"running", "done"} /\ server = "sdk" /\ git.env = "not installed"
    /\ \A i \in DOMAIN git.events : git.events[i] # "error"
    /\ git' = [git EXCEPT !.events = Append(@, "error"),
                          !.result = GitResolve(GitNotAvailable)]
    /\ UNCHANGED <<mainVars, boot, concVars, summary, scratch>>

\* the exit code the tool ends with
GitExitCode(e) == CASE e = "not installed" -> "negative"
                    [] e = "not a repository" -> "nonzero"
                    [] OTHER -> "zero"

\* gitProcess.on('close', (code) => ...): after stdout has ended
GitClose ==
    /\ git.pc = "running" /\ server = "sdk" /\ git.env # "hang"
    /\ git.plan = <<>>
    /\ git' = [git EXCEPT !.pc = "done", !.events = Append(@, "close"),
                          !.result = GitResolve(
                              IF GitExitCode(git.env) = "zero" /\ Trim(git.output) # <<>>
                              THEN HasChanges(git.output) ELSE HasNoChanges)]
    /\ UNCHANGED <<mainVars, boot, concVars, summary, scratch>>

\* the callback of exec: (error, stdout, stderr) => ...
GitExecCallback ==
    /\ git.pc = "running" /\ server = "cli" /\ git.env # "hang"
    /\ git' = [git EXCEPT !.pc = "done", !.events = Append(@, "callback"),
                          !.output = Join(git.plan), !.plan = <<>>,
                          !.result = GitResolve(
                              IF GitExitCode(git.env) # "zero"
                              THEN UnableToGetDiff ELSE DiffText(Join(git.plan)))]
    /\ UNCHANGED <<mainVars, boot, concVars, summary, scratch>>

----------------------------------------------------------------------------
(* The request handlers *)

\* no other execution is in flight
NoExecs == <<>>


\* a request just received: nothing of its execution exists yet
NothingExecuted ==
    /\ hpc = "received"
    /\ resp = NoResponse
    /\ crashed = FALSE
    /\ effects = [spawned |-> 0, queries |-> 0, diffs |-> 0, versions |-> 0]
    /\ plan = <<>>
    /\ pos = 0
    /\ proc = "none"
    /\ exitCode = "unset"
    /\ killed = FALSE
    /\ signals = {}
    /\ timers = NoTimers
    /\ output = <<>>
    /\ errorOutput = <<>>
    /\ jsonOutput = Null
    /\ promise = NoPromise
    /\ closePc = "idle"
    /\ parsed = <<>>
    /\ stream = NoStream
    /\ spos = 0
    /\ sdk = NoSdk
    /\ testDir = "none"

Init ==
    /\ server \in {"sdk", "cli"}
    /\ req \in Requests
    /\ NothingExecuted
    /\ boot = Listening
    /\ git = NoGit
    /\ ex = NoExecs
    /\ last = 0
    /\ probe = NoResponse
    /\ summary = NoSummary
    /\ scratch = NoScratch

\* app.get('/health', ...)
Health ==
    /\ boot.status = "listening" /\ ~crashed /\ hpc = "received" /\ req.endpoint = "health"
    /\ resp' = [NoResponse EXCEPT !.status = 200]
    /\ hpc' = "done"
    /\ UNCHANGED <<auxVars, httpVars, crashed, effects, cliVars, promise, sdkVars>>

\* faulty variant: only the presence of the header is checked
authenticateHeaderPresent ==
    /\ boot.status = "listening" /\ ~crashed /\ hpc = "received" /\ req.endpoint # "health"
    /\ IF req.auth = "absent"
       THEN /\ resp' = [NoResponse EXCEPT !.status = 401, !.error = <<"Unauthorized">>]
            /\ hpc' = "done"
       ELSE /\ resp' = resp
            /\ hpc' = "authed"
    /\ UNCHANGED <<auxVars, httpVars, crashed, effects, cliVars, promise, sdkVars>>

\* const authenticate = (req, res, next) => ...
authenticate ==
    /\ boot.status = "listening" /\ ~crashed /\ hpc = "received" /\ req.endpoint # "health"
    /\ IF req.auth # "ok"
       THEN /\ resp' = [NoResponse EXCEPT !.status = 401, !.error = Unauthorized]
            /\ hpc' = "done"
       ELSE /\ resp' = resp
            /\ hpc' = "authed"
    /\ UNCHANGED <<auxVars, httpVars, crashed, effects, cliVars, promise, sdkVars>>

\* faulty variant: only task is required
ValidateParamsTaskOnly ==
    /\ ~crashed /\ hpc = "authed" /\ req.endpoint = "execute"
    /\ IF ~req.task
       THEN /\ resp' = [NoResponse EXCEPT !.status = 400,
                           !.error = <<"Missing required parameters: task and codebase_path">>]
            /\ hpc' = "done"
       ELSE /\ resp' = resp
            /\ hpc' = IF server = "cli" THEN "validated" ELSE "ready"
    /\ UNCHANGED <<auxVars, httpVars, crashed, effects, cliVars, promise, sdkVars>>

\* if (!task || !codebase_path) return res.status(400).json(...)
ValidateParams ==
    /\ ~crashed /\ hpc = "authed" /\ req.endpoint = "execute"
    /\ IF ~req.task \/ req.path = "absent"
       THEN /\ resp' = [NoResponse EXCEPT !.status = 400, !.error = MissingParams]
            /\ hpc' = "done"
       ELSE /\ resp' = resp
            /\ hpc' = IF server = "cli" THEN "validated" ELSE "ready"
    /\ UNCHANGED <<auxVars, httpVars, crashed, effects, cliVars, promise, sdkVars>>

\* CLI server: await fs.access(codebase_path), caught by the handler's catch
FsAccess ==
    /\ ~crashed /\ hpc = "validated" /\ server = "cli"
    /\ IF req.path = "missing"
       THEN /\ resp' = [NoResponse EXCEPT !.status = 500, !.error = ENOENT,
                                          !.details = ENOENT]
            /\ hpc' = "done"
       ELSE /\ resp' = resp
            /\ hpc' = "ready"
    /\ UNCHANGED <<auxVars, httpVars, crashed, effects, cliVars, promise, sdkVars>>

\* const testDir = `/tmp/test-${Date.now()}` (SDK server: '/tmp/claude-test-' + Date.now()),
\* the name of the request that is running
TestDirNamed == [scratch EXCEPT !.name[last] = scratch.now]

\* fs.mkdir(testDir, { recursive: true }) and spawn('mkdir', ['-p', testDir]):
\* the directory exists afterwards, whether or not it did before
MkdirP(sc) == [sc EXCEPT !.dirs = @ \cup {sc.name[last]}]

\* fs.rm(testDir, { recursive: true, force: true }) and spawn('rm', ['-rf', testDir])
RmRf(sc) == [sc EXCEPT !.dirs = @ \ {sc.name[last]}]

\* test endpoint: create the scratch directory (CLI: fs.mkdir and fs.writeFile,
\* with fs.rm in the catch; SDK: spawn('mkdir', ['-p', testDir]))
PrepareTest ==
    /\ ~crashed /\ hpc = "authed" /\ req.endpoint = "test"
    /\ \E ok \in BOOLEAN :
         IF ok
         THEN /\ testDir' = "created"
              /\ scratch' = MkdirP(TestDirNamed)
              /\ resp' = resp
              /\ hpc' = "ready"
         ELSE /\ testDir' = IF server = "cli" THEN "removed" ELSE testDir
              /\ scratch' = IF server = "cli" THEN RmRf(TestDirNamed) ELSE TestDirNamed
              /\ resp' = [NoResponse EXCEPT !.status = 500,
                                            !.error = <<"Test failed">>]
              /\ hpc' = "done"
    /\ UNCHANGED <<boot, git, concVars, summary, server, req, crashed, effects, cliVars,
                   promise, sdkVars>>

\* SDK server's validate endpoint goes straight to executeClaudeCodeWithSDK
ValidateSdk ==
    /\ ~crashed /\ hpc = "authed" /\ req.endpoint = "validate" /\ server = "sdk"
    /\ hpc' = "ready"
    /\ UNCHANGED <<auxVars, httpVars, resp, crashed, effects, cliVars, promise, sdkVars>>

\* CLI server's validate endpoint: exec('claude --version', callback)
ValidateCli ==
    /\ ~crashed /\ hpc = "authed" /\ req.endpoint = "validate" /\ server = "cli"
    /\ effects' = [effects EXCEPT !.versions = @ + 1]
    /\ \E installed \in BOOLEAN :
         resp' = IF installed
                 THEN [NoResponse EXCEPT !.status = 200]
                 ELSE [NoResponse EXCEPT !.status = 500,
                          !.error = <<"Claude Code not installed or not in PATH">>]
    /\ hpc' = "done"
    /\ UNCHANGED <<auxVars, httpVars, crashed, cliVars, promise, sdkVars>>

----------------------------------------------------------------------------
(* executeClaudeCode: the subprocess runner of the CLI server *)

\* claudeProcess.kill(sig): the signal is sent, and killed set, while the handle is open
KilledAfter(sig) == IF proc = "running" THEN TRUE ELSE killed
SignalsAfter(sig) == IF proc = "running" THEN signals \cup {sig} ELSE signals

\* spawn(command, args, {..., timeout}), the listeners and the two setTimeout calls
SpawnClaude ==
    /\ ~crashed /\ hpc = "ready" /\ server = "cli"
    /\ plan' \in Plans
    /\ proc' = "running"
    /\ timers' = [spawnTimeout |-> "pending", timeoutHandler |-> "pending",
                  ceilingReject |-> "pending", grace |-> "none"]
    /\ promise' = Pending
    /\ effects' = [effects EXCEPT !.spawned = @ + 1]
    /\ hpc' = "executing"
    /\ UNCHANGED <<auxVars, httpVars, resp, crashed, pos, exitCode, killed, signals,
                   output, errorOutput, jsonOutput, closePc, parsed, sdkVars>>

\* spawn fails (the command is not in PATH): the child emits 'error', nothing
\* listens for it, and the uncaught exception ends the server
SpawnFails ==
    /\ ~crashed /\ hpc = "ready" /\ server = "cli"
    /\ promise' = Pending
    /\ hpc' = "executing"
    /\ crashed' = TRUE
    /\ UNCHANGED <<auxVars, httpVars, resp, effects, cliVars, sdkVars>>

\* claudeProcess.stdout.on('data', ...)
StdoutData ==
    /\ IOReady /\ proc \in {"running", "exited"} /\ pos < Len(plan)
    /\ \E k \in 1..(Len(plan) - pos) :
         LET chunk == SubSeq(plan, pos + 1, pos + k)
         IN  /\ output' = output \o chunk
             /\ jsonOutput' = ParseChunk(chunk, jsonOutput)
             /\ parsed' = parsed \o ParsedIn(SelectNonBlank(Split(chunk)))
             /\ pos' = pos + k
    /\ UNCHANGED <<auxVars, httpVars, hpc, resp, crashed, effects, plan, proc, exitCode,
                   killed, signals, timers, errorOutput, promise, closePc, sdkVars>>

\* claudeProcess.stderr.on('data', ...)
StderrData ==
    /\ IOReady /\ proc \in {"running", "exited"} /\ Len(errorOutput) < MaxErrChunks
    /\ errorOutput' = errorOutput \o <<"stderr text">>
    /\ UNCHANGED <<auxVars, httpVars, hpc, resp, crashed, effects, plan, pos, proc, exitCode,
                   killed, signals, timers, output, jsonOutput, promise, closePc, parsed,
                   sdkVars>>

\* the codes a process can end with: a status of its own, or null when a
\* signal (one of ours or anyone's) ended it
ExitCodes == {"zero", "nonzero", "null"}

\* the child's 'exit': the handle is closed and spawn's own timeout timer cleared
ProcessExit ==
    /\ IOReady /\ proc = "running"
    /\ exitCode' \in ExitCodes
    /\ proc' = "exited"
    /\ timers' = [timers EXCEPT !.spawnTimeout =
                     IF @ = "pending" THEN "cleared" ELSE @]
    /\ UNCHANGED <<auxVars, httpVars, hpc, resp, crashed, effects, plan, pos, killed,
                   signals, output, errorOutput, jsonOutput, promise, closePc, parsed,
                   sdkVars>>

\* claudeProcess.on('close', async (code) => ...) up to its reject or its await
OnClose ==
    /\ IOReady /\ proc = "exited"
    /\ proc' = "closed"
    /\ timers' = [timers EXCEPT !.timeoutHandler =
                     IF @ = "pending" THEN "cleared" ELSE @]
    /\ IF exitCode # "zero"
       THEN /\ promise' = Settle(promise, CloseRejection(exitCode, errorOutput))
            /\ closePc' = "done"
            /\ effects' = effects
       ELSE /\ promise' = promise
            /\ closePc' = "awaitDiff"
            /\ effects' = [effects EXCEPT !.diffs = @ + 1]
    /\ UNCHANGED <<auxVars, httpVars, hpc, resp, crashed, plan, pos, exitCode, killed,
                   signals, output, errorOutput, jsonOutput, parsed, sdkVars>>

\* the 'close' handler after `await getGitDiff(codebasePath)`
OnCloseResume ==
    /\ IOReady /\ closePc = "awaitDiff"
    /\ \E changes \in Changes :
         promise' = Settle(promise, CloseResolution(jsonOutput, output, changes))
    /\ closePc' = "done"
    /\ UNCHANGED <<auxVars, httpVars, hpc, resp, crashed, effects, plan, pos, proc, exitCode,
                   killed, signals, timers, output, errorOutput, jsonOutput,
                   parsed, sdkVars>>

\* the timer of spawn's timeout option: child.kill(killSignal)
SpawnTimeoutFires ==
    /\ Up /\ timers.spawnTimeout = "pending"
    /\ killed' = KilledAfter("SIGTERM")
    /\ signals' = SignalsAfter("SIGTERM")
    /\ timers' = [timers EXCEPT !.spawnTimeout = "fired"]
    /\ UNCHANGED <<auxVars, httpVars, hpc, resp, crashed, effects, plan, pos, proc, exitCode,
                   output, errorOutput, jsonOutput, promise, closePc, parsed, sdkVars>>

\* const timeoutHandler = setTimeout(() => { kill('SIGTERM'); setTimeout(..., 5000) }, MAX_EXECUTION_TIME)
TimeoutHandlerFires ==
    /\ Up /\ timers.timeoutHandler = "pending" /\ timers.spawnTimeout # "pending"
    /\ killed' = KilledAfter("SIGTERM")
    /\ signals' = SignalsAfter("SIGTERM")
    /\ timers' = [timers EXCEPT !.timeoutHandler = "fired", !.grace = "pending"]
    /\ UNCHANGED <<auxVars, httpVars, hpc, resp, crashed, effects, plan, pos, proc, exitCode,
                   output, errorOutput, jsonOutput, promise, closePc, parsed, sdkVars>>

\* setTimeout(() => { if (!claudeProcess.killed) claudeProcess.kill('SIGKILL') }, 5000)
GraceFires ==
    /\ Up /\ timers.grace = "pending" /\ ~InTimersPhase
    /\ IF ~killed
       THEN /\ killed' = KilledAfter("SIGKILL")
            /\ signals' = SignalsAfter("SIGKILL")
       ELSE UNCHANGED <<killed, signals>>
    /\ timers' = [timers EXCEPT !.grace = "fired"]
    /\ UNCHANGED <<auxVars, httpVars, hpc, resp, crashed, effects, plan, pos, proc, exitCode,
                   output, errorOutput, jsonOutput, promise, closePc, parsed, sdkVars>>

\* setTimeout(() => { kill('SIGTERM'); reject({ error: 'Execution timeout exceeded' }) }, MAX_EXECUTION_TIME)
CeilingRejectFires ==
    /\ Up /\ timers.ceilingReject = "pending"
    /\ timers.spawnTimeout # "pending" /\ timers.timeoutHandler # "pending"
    /\ killed' = KilledAfter("SIGTERM")
    /\ signals' = SignalsAfter("SIGTERM")
    /\ promise' = Settle(promise, TimeoutRejection)
    /\ timers' = [timers EXCEPT !.ceilingReject = "fired"]
    /\ UNCHANGED <<auxVars, httpVars, hpc, resp, crashed, effects, plan, pos, proc, exitCode,
                   output, errorOutput, jsonOutput, closePc, parsed, sdkVars>>

----------------------------------------------------------------------------
(* executeClaudeCodeWithSDK: the runner of the SDK server *)

SdkExecutionFailed == <<"Claude Code SDK execution failed">>
NoResultReceived   == <<"No result received from Claude Code SDK">>
SdkException       == <<"exception thrown by the SDK">>

\* faulty variant: the thrown object does not carry the message of the error
SdkRejectionNoDetails(message) ==
    [Pending EXCEPT !.state = "rejected", !.success = "false",
                    !.error = SdkExecutionFailed]

\* throw { success: false, error: 'Claude Code SDK execution failed', details: error.message, duration_ms }
SdkRejection(message) ==
    [Pending EXCEPT !.state = "rejected", !.success = "false",
                    !.error = SdkExecutionFailed, !.details = message]

\* return { success: true, result, summary, cost, duration_ms, changes }
SdkResolution(l, changes) ==
    [Pending EXCEPT !.state = "resolved", !.success = "true", !.result = l.result,
                    !.cost = l.totalCost, !.turns = l.turns, !.changes = changes]

\* faulty variant: is_error is not looked at
ResultOfIgnoringHardError(m) ==
    IF m.subtype = "error_during_execution"
    THEN <<"Task completed successfully (with minor execution details)">>
    ELSE IF m.result # NoText THEN m.result
    ELSE <<"Task completed successfully">>

\* faulty variant: the result text is the message's own, empty or not
ResultOfVerbatim(m) ==
    IF m.subtype = "error_during_execution" /\ ~m.is_error
    THEN <<"Task completed successfully (with minor execution details)">>
    ELSE m.result

\* the result text a 'result' message gives
ResultOf(m) ==
    IF m.subtype = "error_during_execution" /\ ~m.is_error
    THEN <<"Task completed successfully (with minor execution details)">>
    ELSE IF m.result # NoText THEN m.result
    ELSE <<"Task completed successfully">>

\* message.total_cost_usd || 0 and message.num_turns || 1
CostOf(m) == IF m.total_cost_usd = Absent \/ m.total_cost_usd = 0 THEN 0 ELSE m.total_cost_usd
TurnsOf(m) == IF m.num_turns = Absent \/ m.num_turns = 0 THEN 1 ELSE m.num_turns

\* the call of executeClaudeCodeWithSDK up to the first await of the stream
StartQuery ==
    /\ ~crashed /\ hpc = "ready" /\ server = "sdk"
    /\ stream' \in Streams
    /\ spos' = 0
    /\ sdk' = [NoSdk EXCEPT !.pc = "loop"]
    /\ promise' = Pending
    /\ effects' = [effects EXCEPT !.queries = @ + 1]
    /\ hpc' = "executing"
    /\ UNCHANGED <<auxVars, httpVars, resp, crashed, cliVars>>

\* faulty variant: every message counts as a turn
NextMessageCountsAll ==
    /\ Up /\ sdk.pc = "loop" /\ spos < Len(stream.msgs)
    /\ LET m == stream.msgs[spos + 1]
       IN  /\ spos' = spos + 1
           /\ IF m.type = "result"
              THEN /\ sdk' = [pc |-> IF ResultOf(m) # NoText THEN "awaitDiff" ELSE "done",
                              result |-> ResultOf(m), totalCost |-> CostOf(m),
                              turns |-> TurnsOf(m)]
                   /\ promise' = IF ResultOf(m) # NoText THEN promise
                                 ELSE Settle(promise, SdkRejection(NoResultReceived))
                   /\ effects' = IF ResultOf(m) # NoText
                                 THEN [effects EXCEPT !.diffs = @ + 1] ELSE effects
              ELSE IF m.type = "error"
              THEN /\ sdk' = [sdk EXCEPT !.pc = "done"]
                   /\ promise' = Settle(promise,
                         SdkRejection(<<"Claude Code SDK error: ">> \o m.error))
                   /\ effects' = effects
              ELSE /\ sdk' = [sdk EXCEPT !.turns = @ + 1]
                   /\ UNCHANGED <<promise, effects>>
    /\ UNCHANGED <<auxVars, httpVars, hpc, resp, crashed, cliVars, stream>>

\* faulty variant: no break after a 'result' message
NextMessageNoBreak ==
    /\ Up /\ sdk.pc \in {"loop", "awaitDiff"} /\ spos < Len(stream.msgs)
    /\ LET m == stream.msgs[spos + 1]
       IN  /\ spos' = spos + 1
           /\ IF m.type = "result"
              THEN /\ sdk' = [pc |-> IF ResultOf(m) # NoText THEN "awaitDiff" ELSE "done",
                              result |-> ResultOf(m), totalCost |-> CostOf(m),
                              turns |-> TurnsOf(m)]
                   /\ promise' = IF ResultOf(m) # NoText THEN promise
                                 ELSE Settle(promise, SdkRejection(NoResultReceived))
                   /\ effects' = IF ResultOf(m) # NoText
                                 THEN [effects EXCEPT !.diffs = @ + 1] ELSE effects
              ELSE IF m.type = "error"
              THEN /\ sdk' = [sdk EXCEPT !.pc = "done"]
                   /\ promise' = Settle(promise,
                         SdkRejection(<<"Claude Code SDK error: ">> \o m.error))
                   /\ effects' = effects
              ELSE UNCHANGED <<sdk, promise, effects>>
    /\ UNCHANGED <<auxVars, httpVars, hpc, resp, crashed, cliVars, stream>>

\* one turn of `for await (const message of query(...))`; a 'result' message
\* breaks out of the loop, passes `if (!result)` and calls getGitDiff
NextMessage ==
    /\ Up /\ sdk.pc = "loop" /\ spos < Len(stream.msgs)
    /\ LET m == stream.msgs[spos + 1]
       IN  /\ spos' = spos + 1
           /\ IF m.type = "result"
              THEN /\ sdk' = [pc |-> IF ResultOf(m) # NoText THEN "awaitDiff" ELSE "done",
                              result |-> ResultOf(m), totalCost |-> CostOf(m),
                              turns |-> TurnsOf(m)]
                   /\ promise' = IF ResultOf(m) # NoText THEN promise
                                 ELSE Settle(promise, SdkRejection(NoResultReceived))
                   /\ effects' = IF ResultOf(m) # NoText
                                 THEN [effects EXCEPT !.diffs = @ + 1] ELSE effects
              ELSE IF m.type = "error"
              THEN /\ sdk' = [sdk EXCEPT !.pc = "done"]
                   /\ promise' = Settle(promise,
                         SdkRejection(<<"Claude Code SDK error: ">> \o m.error))
                   /\ effects' = effects
              ELSE UNCHANGED <<sdk, promise, effects>>
    /\ UNCHANGED <<auxVars, httpVars, hpc, resp, crashed, cliVars, stream>>

\* the stream is exhausted: the loop ends with result still null and the
\* function throws 'No result received'; or the iterator throws
StreamEnds ==
    /\ Up /\ sdk.pc = "loop" /\ spos = Len(stream.msgs) /\ stream.end # "hang"
    /\ sdk' = [sdk EXCEPT !.pc = "done"]
    /\ promise' = Settle(promise,
                         IF stream.end = "done"
                         THEN SdkRejection(NoResultReceived)
                         ELSE SdkRejection(SdkException))
    /\ UNCHANGED <<auxVars, httpVars, hpc, resp, crashed, effects, cliVars, stream, spos>>

\* executeClaudeCodeWithSDK after `await getGitDiff(codebasePath)`
SdkResume ==
    /\ Up /\ sdk.pc = "awaitDiff"
    /\ \E changes \in Changes :
         promise' = Settle(promise, SdkResolution(sdk, changes))
    /\ sdk' = [sdk EXCEPT !.pc = "done"]
    /\ UNCHANGED <<auxVars, httpVars, hpc, resp, crashed, effects, cliVars, stream, spos>>

----------------------------------------------------------------------------
(* The handlers after `await executeClaudeCode...(...)` *)

\* res.json(result) of the execute endpoints
ExecuteOk(p) ==
    [NoResponse EXCEPT !.status = 200, !.success = p.success, !.result = p.result,
                       !.changes = p.changes, !.cost = p.cost, !.turns = p.turns]

\* res.status(500).json({ error: ..., details: error }) of the execute endpoints
ExecuteFailed(p) ==
    IF server = "cli"
    THEN [NoResponse EXCEPT !.status = 500, !.error = FailedToExecute,
                            !.details = p.error, !.errorOutput = p.errorOutput,
                            !.code = p.code]
    ELSE [NoResponse EXCEPT !.status = 500,
                            !.error = <<"Failed to execute Claude Code SDK">>,
                            !.details = p.details]

\* the responses of the validate (SDK server) and test endpoints
OtherOk(p) ==
    [NoResponse EXCEPT !.status = 200,
                       !.success = IF server = "cli" THEN "true" ELSE "absent",
                       !.result = p.result, !.cost = p.cost]

OtherFailed(p) ==
    [NoResponse EXCEPT !.status = 500,
                       !.error = IF req.endpoint = "validate"
                                 THEN <<"Claude Code SDK validation failed">>
                                 ELSE IF server = "cli" THEN <<"Test failed">>
                                 ELSE <<"Claude Code SDK test failed">>,
                       !.details = p.details]

\* the continuation of the handler once the promise it awaits has settled
HandlerResume ==
    /\ ~crashed /\ MicrotaskPending
    /\ resp' = IF req.endpoint = "execute"
               THEN IF promise.state = "resolved"
                    THEN ExecuteOk(promise) ELSE ExecuteFailed(promise)
               ELSE IF promise.state = "resolved"
                    THEN OtherOk(promise) ELSE OtherFailed(promise)
    \* test endpoint: fs.rm on both paths (CLI), spawn('rm') after a success (SDK)
    /\ testDir' = IF req.endpoint = "test"
                     /\ (server = "cli" \/ promise.state = "resolved")
                  THEN "removed" ELSE testDir
    /\ scratch' = IF req.endpoint = "test"
                     /\ (server = "cli" \/ promise.state = "resolved")
                  THEN RmRf(scratch) ELSE scratch
    /\ hpc' = "done"
    /\ UNCHANGED <<boot, git, concVars, summary, server, req, crashed, effects, cliVars,
                   promise, sdkVars>>

----------------------------------------------------------------------------

Next ==
    \/ Health
    \/ authenticate
    \/ ValidateParams
    \/ FsAccess
    \/ PrepareTest
    \/ ValidateSdk
    \/ ValidateCli
    \/ SpawnClaude
    \/ SpawnFails
    \/ StdoutData
    \/ StderrData
    \/ ProcessExit
    \/ OnClose
    \/ OnCloseResume
    \/ SpawnTimeoutFires
    \/ TimeoutHandlerFires
    \/ GraceFires
    \/ CeilingRejectFires
    \/ StartQuery
    \/ NextMessage
    \/ StreamEnds
    \/ SdkResume
    \/ HandlerResume

Spec == Init /\ [][Next]_vars

----------------------------------------------------------------------------
(* Two requests in flight, and GET /health in between *)

\* What one request and its execution own: the request and response objects of
\* its handler and the locals and closures of its call of executeClaudeCode /
\* executeClaudeCodeWithSDK. The event loop runs one callback at a time; `ex`
\* holds what the other request owns while a callback of this one runs.
Locals ==
    [req |-> req, hpc |-> hpc, resp |-> resp, effects |-> effects, plan |-> plan,
     pos |-> pos, proc |-> proc, exitCode |-> exitCode, killed |-> killed,
     signals |-> signals, timers |-> timers, output |-> output,
     errorOutput |-> errorOutput, jsonOutput |-> jsonOutput, promise |-> promise,
     closePc |-> closePc, parsed |-> parsed, stream |-> stream, spos |-> spos,
     sdk |-> sdk, testDir |-> testDir]

\* The next callback belongs to the other request. Microtasks of the running
\* callback come first, and the ceiling timers of one execution run back to back.
Switch ==
    /\ IOReady
    /\ ex' = Locals
    /\ last' = 3 - last
    /\ req' = ex.req /\ hpc' = ex.hpc /\ resp' = ex.resp /\ effects' = ex.effects
    /\ plan' = ex.plan /\ pos' = ex.pos /\ proc' = ex.proc
    /\ exitCode' = ex.exitCode /\ killed' = ex.killed /\ signals' = ex.signals
    /\ timers' = ex.timers /\ output' = ex.output /\ errorOutput' = ex.errorOutput
    /\ jsonOutput' = ex.jsonOutput /\ promise' = ex.promise /\ closePc' = ex.closePc
    /\ parsed' = ex.parsed /\ stream' = ex.stream /\ spos' = ex.spos
    /\ sdk' = ex.sdk /\ testDir' = ex.testDir
    /\ UNCHANGED <<server, crashed, boot, git, probe, summary, scratch>>

\* app.get('/health', ...) answering a request of its own: 200 with
\* { status: 'healthy', version: ... }
Healthy == [NoResponse EXCEPT !.status = 200,
                              !.result = IF server = "sdk" THEN <<"healthy", "2.0.0-sdk">>
                                                           ELSE <<"healthy", "1.0.0">>]

\* faulty variant: the health route behind authenticate
HealthProbeAuthenticated ==
    /\ IOReady /\ boot.status = "listening" /\ probe = NoResponse
    /\ \E a \in AuthHeaders :
         probe' = IF a = "ok" THEN Healthy
                  ELSE [NoResponse EXCEPT !.status = 401, !.error = Unauthorized]
    /\ UNCHANGED <<mainVars, boot, git, ex, last, summary, scratch>>

HealthProbe ==
    /\ IOReady /\ boot.status = "listening" /\ probe = NoResponse
    /\ \E a \in AuthHeaders : probe' = Healthy
    /\ UNCHANGED <<mainVars, boot, git, ex, last, summary, scratch>>

\* The inputs of the two executions. The process prints nothing, or one payload
\* line, or a line of text and that payload line, and writes nothing to stderr; the SDK stream is empty or has a 'result'
\* or an 'error' message; both executions end, if they do, before the ceiling
\* MAX_EXECUTION_TIME elapses.
ConcPlans == { <<>>, Join(<< <<"O1", "C1">> >>), Join(<< <<"Plain">>, <<"O1", "C1">> >>) }
ConcStreams ==
    { [msgs |-> m, end |-> e] :
        m \in { <<>>, <<ErrorMsg>>,
                 <<[type |-> "result", subtype |-> "success", is_error |-> FALSE,
                    result |-> <<"r1">>, error |-> NoText, total_cost_usd |-> 2,
                    num_turns |-> 3]>> },
        e \in {"done", "hang"} }
ConcInputs ==
    /\ plan \in ConcPlans
    /\ errorOutput = <<>>
    /\ stream \in ConcStreams
    /\ \A t \in DOMAIN timers : timers[t] # "fired"

ValidRequest == [endpoint |-> "execute", auth |-> "ok", task |-> TRUE, path |-> "exists"]

InitConc ==
    /\ server \in {"sdk", "cli"}
    /\ req = ValidRequest
    /\ NothingExecuted
    /\ boot = Listening
    /\ git = NoGit
    /\ ex = Locals
    /\ last = 1
    /\ probe = NoResponse
    /\ summary = NoSummary
    /\ scratch = NoScratch

Step == Next /\ ConcInputs'

NextConc ==
    \/ Step
    \/ Switch
    \/ HealthProbe

SpecConc == InitConc /\ [][NextConc]_vars

----------------------------------------------------------------------------
(* Two requests to the test endpoint in flight *)

\* a millisecond passes: Date.now() returns the next value
Tick ==
    /\ scratch.now < MaxClock
    /\ scratch' = [scratch EXCEPT !.now = @ + 1]
    /\ UNCHANGED <<mainVars, boot, git, concVars, summary>>

\* POST /api/claude-code/test reads nothing of the body
TestRequest == [endpoint |-> "test", auth |-> "ok", task |-> FALSE, path |-> "absent"]

\* The inputs of the two test executions: the process prints nothing or one
\* payload line, the SDK stream is empty or has one 'result' or 'error'
\* message and ends, and both executions end before the ceiling elapses.
TestInputs ==
    /\ plan \in { <<>>, Join(<< <<"O1", "C1">> >>) }
    /\ errorOutput = <<>>
    /\ stream \in { s \in ConcStreams : s.end = "done" }
    /\ \A t \in DOMAIN timers : timers[t] # "fired"

InitTest ==
    /\ server \in {"sdk", "cli"}
    /\ req = TestRequest
    /\ NothingExecuted
    /\ boot = Listening
    /\ git = NoGit
    /\ ex = Locals
    /\ last = 1
    /\ probe = NoResponse
    /\ summary = NoSummary
    /\ scratch = NoScratch

TestStep == Next /\ TestInputs'

NextTest ==
    \/ TestStep
    \/ Switch
    \/ Tick

SpecTest == InitTest /\ [][NextTest]_vars

----------------------------------------------------------------------------
(* A call of extractSummaryFromOutput *)

\* lines of the process's text output
SummaryLines == { <<"Created", "SP", "x">>, <<"FIXED", "SP", "y">>, <<"Created">>,
                  <<"SP", "Created", "SP", "x">>, <<"Plain">>, <<"SP">>, <<>> }

SummaryOutputs ==
    { Join(ls) : ls \in UNION { [1..n -> SummaryLines] : n \in 0..MaxSummaryLines } }

InitSummary ==
    /\ server = "cli"
    /\ req = ValidRequest
    /\ hpc = "received" /\ resp = NoResponse /\ crashed = FALSE
    /\ effects = [spawned |-> 0, queries |-> 0, diffs |-> 0, versions |-> 0]
    /\ plan = <<>> /\ pos = 0 /\ proc = "none" /\ exitCode = "unset"
    /\ killed = FALSE /\ signals = {} /\ timers = NoTimers
    /\ output \in SummaryOutputs
    /\ errorOutput = <<>> /\ jsonOutput = Null /\ promise = NoPromise
    /\ closePc = "idle" /\ parsed = <<>> /\ stream = NoStream /\ spos = 0
    /\ sdk = NoSdk /\ testDir = "none"
    /\ boot = Listening
    /\ git = NoGit
    /\ ex = NoExecs
    /\ last = 0
    /\ probe = NoResponse
    /\ summary = NoSummary
    /\ scratch = NoScratch

\* summary = extractSummaryFromOutput(output)
ExtractSummary ==
    /\ ~summary.returned
    /\ summary' = [returned |-> TRUE, text |-> extractSummaryFromOutput(output)]
    /\ UNCHANGED <<mainVars, boot, git, concVars, scratch>>

NextSummary == ExtractSummary

SpecSummary == InitSummary /\ [][NextSummary]_vars

----------------------------------------------------------------------------
(* Startup, and the first request the server accepts *)

InitStart ==
    /\ server \in {"sdk", "cli"}
    /\ req \in Requests
    /\ NothingExecuted
    /\ boot \in [key : BOOLEAN, launch : Launches, status : {"start"}]
    /\ git = NoGit
    /\ ex = NoExecs
    /\ last = 0
    /\ probe = NoResponse
    /\ summary = NoSummary
    /\ scratch = NoScratch

NextStart ==
    \/ EntrypointCheck
    \/ ServerStart
    \/ Health
    \/ authenticate
    \/ ValidateParams

SpecStart == InitStart /\ [][NextStart]_vars

----------------------------------------------------------------------------
(* One run of the change detector *)

InitDiff ==
    /\ server \in {"sdk", "cli"}
    /\ req \in {r \in Requests : r.endpoint = "execute" /\ r.auth = "ok"
                                    /\ r.task /\ r.path = "exists"}
    /\ NothingExecuted
    /\ boot = Listening
    /\ git = [NoGit EXCEPT !.pc = "start"]
    /\ ex = NoExecs
    /\ last = 0
    /\ probe = NoResponse
    /\ summary = NoSummary
    /\ scratch = NoScratch

NextDiff ==
    \/ GitStart
    \/ GitStdoutData
    \/ GitError
    \/ GitClose
    \/ GitExecCallback

SpecDiff == InitDiff /\ [][NextDiff]_vars

----------------------------------------------------------------------------
(* Claims *)

\* the text contains 'timeout' (case-insensitive)
ContainsTimeout(t) == \E i \in 1..Len(t) : t[i] \in {"Execution timeout exceeded"}

Settled == promise.state \in {"resolved", "rejected"}

NoExecution ==
    /\ effects = [spawned |-> 0, queries |-> 0, diffs |-> 0, versions |-> 0]
    /\ proc = "none" /\ promise.state = "none" /\ sdk.pc = "idle" /\ testDir = "none"

C2_TwoPhaseKill ==
    [][ (timers.grace = "pending" /\ timers'.grace = "fired") =>
            (("SIGKILL" \in signals') <=> proc = "running") ]_vars

\* C3: the runner never raises: its promise is never rejected and no unhandled
\* 'error' event ends the server.
C3_NeverRaises == ~crashed /\ promise.state # "rejected"

OutcomeWellFormed ==
    /\ promise.state = "resolved" =>
          promise.success = "true" /\ promise.result # NoText
          /\ promise.error = NoText /\ promise.details = NoText
    /\ promise.state = "rejected" =>
          promise.success # "true" /\ promise.result = NoText
          /\ promise.error # NoText
    /\ (resp.status # 0 /\ promise.state # "none") =>
          /\ promise.state = "resolved" <=> resp.status = 200
          /\ promise.state = "rejected" <=> resp.status = 500
          /\ resp.status = 200 <=> resp.result # NoText
          /\ resp.status = 500 <=> resp.error # NoText

\* C4: a settled outcome is either a success with a result text or a failure
\* with an error, never both and never neither; once the outcome is settled no
\* step changes it, and once a response is sent no step changes or repeats it.
C4_ExactlyOneOutcome ==
    /\ OutcomeWellFormed
    /\ [][ /\ OutcomeWellFormed'
           /\ Settled => promise' = promise
           /\ resp.status # 0 => resp' = resp /\ hpc' = hpc ]_vars

C4_Witness ==
    /\ promise.state = "rejected" /\ promise.error = TimeoutExceeded
    /\ proc = "closed" /\ closePc = "done" /\ pos > 0
    /\ hpc = "done" /\ resp.status = 500

\* the 'result' message the SDK loop stopped at
TerminalMsg == stream.msgs[spos]
StoppedAtResult == spos > 0 /\ sdk.pc \in {"awaitDiff", "done"} /\ TerminalMsg.type = "result"

\* C5: a process that exits 0 after a structured payload was parsed from its
\* output (or an SDK stream that delivers a success 'result' message with a text)
\* gives a success outcome whose result text is the payload's result field.
C5_PayloadResult ==
    /\ (server = "cli" /\ closePc = "done" /\ exitCode = "zero" /\ jsonOutput.tag = "obj") =>
          promise.state = "resolved" /\ promise.result = jsonOutput.result
    /\ (server = "sdk" /\ sdk.pc = "done" /\ StoppedAtResult
        /\ TerminalMsg.subtype = "success" /\ TerminalMsg.result # NoText) =>
          promise.state = "resolved" /\ promise.result = TerminalMsg.result

\* C6: when two payloads were parsed before the close, the held candidate is
\* the one parsed last and the outcome's result text is its result field.
C6_LastPayloadWins ==
    (promise.state = "resolved" /\ Len(parsed) >= 2) =>
        /\ jsonOutput = parsed[Len(parsed)]
        /\ promise.result = parsed[Len(parsed)].result

\* no consumed message was a 'result' or an 'error'
NoTerminalMsg == \A i \in 1..spos : stream.msgs[i].type \notin {"result", "error"}

\* C7: a backend that finishes cleanly (exit status 0, or the stream ends
\* normally) with no terminal message classified gives a success outcome with a
\* result text, never a failure.
C7_CleanFinishIsSuccess ==
    /\ (server = "cli" /\ closePc = "done" /\ exitCode = "zero" /\ jsonOutput.tag = "null") =>
          promise.state = "resolved" /\ promise.result # NoText
    /\ (server = "sdk" /\ sdk.pc = "done" /\ stream.end = "done"
        /\ spos = Len(stream.msgs) /\ NoTerminalMsg) =>
          promise.state = "resolved" /\ promise.result # NoText

\* C8 as stated: after a non-zero exit the outcome is a failure whose detail is
\* the generic error with the captured stderr text.
C8_NonZeroExit_Original ==
    (proc = "closed" /\ exitCode = "nonzero") =>
        /\ promise.state = "rejected"
        /\ promise.error = ExecutionFailed
        /\ promise.errorOutput = errorOutput

\* C8 amended: after a non-zero exit the outcome is a failure; unless the
\* ceiling timer had already rejected it as a timeout, its detail is the generic
\* 'Claude Code execution failed' with the exit code and the captured stderr
\* text, whether or not a payload had been parsed from stdout.
C8_NonZeroExit ==
    (proc = "closed" /\ exitCode = "nonzero") =>
        /\ promise.state = "rejected"
        /\ \/ /\ promise.error = ExecutionFailed
              /\ promise.errorOutput = errorOutput
              /\ promise.code = "nonzero"
              /\ (hpc = "done" /\ req.endpoint = "execute") =>
                    resp.status = 500 /\ resp.errorOutput = errorOutput
           \/ /\ promise = TimeoutRejection
              /\ timers.ceilingReject = "fired"

C8_Witness ==
    /\ proc = "closed" /\ exitCode = "nonzero"
    /\ jsonOutput.tag = "obj" /\ errorOutput # <<>>
    /\ promise.error = ExecutionFailed
    /\ req.endpoint = "execute"
    /\ hpc = "done" /\ resp.errorOutput = errorOutput

MissingParameter == req.endpoint = "execute" /\ (~req.task \/ req.path = "absent")

\* C9 as stated: every task request without task or codebase_path is answered
\* 400 and starts no execution.
C9_MissingParams_Original ==
    MissingParameter => NoExecution /\ (hpc = "done" => resp.status = 400)

\* C9 amended: a task request without task or codebase_path starts no execution;
\* it is answered 400 when it carries the right credential and 401 otherwise.
C9_MissingParams ==
    MissingParameter =>
        /\ NoExecution
        /\ hpc = "done" => resp.status = IF req.auth = "ok" THEN 400 ELSE 401
        /\ hpc \in {"received", "authed", "done"}

C9_Witness ==
    /\ req.endpoint = "execute" /\ req.auth = "ok" /\ req.task /\ req.path = "absent"
    /\ hpc = "done" /\ resp.status = 400

\* C10: a request to execute, validate or test whose Authorization header is
\* absent or wrong is answered 401 {error: 'Unauthorized'} and starts nothing,
\* whatever its body; the check comes before the parameter check.
C10_Unauthorized ==
    (req.endpoint # "health" /\ req.auth # "ok") =>
        /\ NoExecution
        /\ hpc \in {"received", "done"}
        /\ hpc = "done" => resp.status = 401 /\ resp.error = Unauthorized

C10_Witness ==
    /\ req.endpoint = "execute" /\ req.auth = "wrong" /\ ~req.task
    /\ hpc = "done" /\ resp.status = 401

\* what the change detector returns for a repository without changes
GenuineNoChanges ==
    IF server = "sdk" THEN [HasNoChanges EXCEPT !.settled = TRUE]
                      ELSE [DiffText(<<>>) EXCEPT !.settled = TRUE]

\* C11: whenever the diff tool fails (it is not installed, or the working
\* directory is not a repository and it exits non-zero) the change detector
\* still returns, and what it returns differs from what it returns for a
\* repository without changes.
C11_FailureIsMarked ==
    (git.pc = "done" /\ git.env \in {"not installed", "not a repository"}) =>
        /\ git.result.settled
        /\ git.result # GenuineNoChanges

\* C12: every execution that has ended in a failure (a timeout included) has
\* had the change detector run for it, and the failure response carries the
\* change set.
C12_DiffRegardlessOfOutcome ==
    (promise.state = "rejected" /\ hpc = "done" /\ req.endpoint = "execute") =>
        effects.diffs > 0 /\ resp.changes \in Changes

\* the runner comes back from `await getGitDiff(...)` with its outcome undecided
DiffReturns ==
    /\ promise.state = "pending"
    /\ \/ closePc = "awaitDiff" /\ closePc' = "done"
       \/ sdk.pc = "awaitDiff" /\ sdk'.pc = "done"

\* C13: when the runner has seen the success terminal event (exit status 0, a
\* 'result' message) and comes back from the change detector, it delivers a
\* success whatever the detector returned, a failed diff included; that
\* success is answered 200 with success true and the change set as returned.
C13_DiffFailureKeepsSuccess ==
    /\ [][ DiffReturns => /\ promise'.state = "resolved"
                           /\ promise'.success = "true"
                           /\ promise'.changes \in Changes ]_vars
    /\ [](( promise.state = "resolved" /\ hpc = "done" /\ req.endpoint = "execute") =>
              /\ resp.status = 200 /\ resp.success = "true"
              /\ resp.changes = promise.changes)

C13_Witness ==
    /\ server = "cli" /\ req.endpoint = "execute"
    /\ closePc = "done" /\ exitCode = "zero"
    /\ promise.state = "resolved" /\ promise.changes = <<"diff unavailable">>
    /\ hpc = "done" /\ resp.status = 200 /\ resp.success = "true"

\* C14: a request whose execution is under way is never stuck: while its
\* handler awaits the runner, something can still happen for it.
C14_NoHanging ==
    (~crashed /\ hpc = "executing") => ENABLED Next

\* C15: when the timeout failure is in the response, the process had exited.
C15_ExitBeforeTimeoutResponse ==
    (hpc = "done" /\ req.endpoint = "execute" /\ ContainsTimeout(resp.details)) =>
        proc \in {"exited", "closed"}

\* C16: a request whose own process was started gets the outcome it would get
\* alone: it is never left without one because of what happened to the other
\* request.
C16_OutcomeAsIfAlone ==
    ~(crashed /\ ex.hpc = "executing" /\ ex.proc \in {"running", "exited", "closed"})

\* C17: a delivered success carries a cost of at least 0 and a turn count of
\* at least 1: those of the terminal message or payload when it has them,
\* 0 and 1 otherwise.
C17_CostAndTurns ==
    promise.state = "resolved" =>
        /\ promise.cost >= 0 /\ promise.turns >= 1
        /\ (server = "cli" /\ jsonOutput.tag = "obj") =>
              /\ promise.cost = IF jsonOutput.total_cost_usd = Absent
                                THEN 0 ELSE jsonOutput.total_cost_usd
              /\ promise.turns = IF jsonOutput.num_turns = Absent
                                 THEN 1 ELSE jsonOutput.num_turns
        /\ (server = "sdk" /\ StoppedAtResult) =>
              /\ promise.cost = IF stream.msgs[spos].total_cost_usd = Absent
                                THEN 0 ELSE stream.msgs[spos].total_cost_usd
              /\ promise.turns = IF stream.msgs[spos].num_turns = Absent
                                 THEN 1 ELSE stream.msgs[spos].num_turns

\* C18: every response to a task request whose execution was attempted has a
\* boolean success field at its top level.
C18_SuccessField ==
    (hpc = "done" /\ req.endpoint = "execute" /\ promise.state # "none") =>
        resp.success \in {"true", "false"}

\* C19: while the process is up GET /health can be answered between any two
\* callbacks, and its answer is 200 { status: 'healthy', version } whatever
\* credential it carries and whatever the two task requests are doing.
C19_HealthAlways200 ==
    /\ (boot.status = "listening" /\ IOReady /\ probe = NoResponse) => ENABLED HealthProbe
    /\ probe # NoResponse => probe = Healthy

C19_Witness ==
    /\ probe = Healthy
    /\ hpc = "executing" /\ promise.state = "pending"
    /\ ex.hpc = "executing" /\ ex.promise.state = "pending"

\* C20: a server started while ANTHROPIC_API_KEY is unset never listens, so it
\* never takes a request past its arrival.
C20_RefusesToStart ==
    ~boot.key => (boot.status # "listening" /\ hpc = "received")

\* the two executions in flight have both ended in a success, after the same
\* terminal message (the same parsed payload) and with the same change set
SameObservation ==
    /\ promise.state = "resolved" /\ ex.promise.state = "resolved"
    /\ promise.changes = ex.promise.changes
    /\ IF server = "sdk"
       THEN stream.msgs[spos] = ex.stream.msgs[ex.spos]
       ELSE jsonOutput.tag = "obj" /\ jsonOutput = ex.jsonOutput

\* C21: two executions that saw the same terminal message and got the same
\* change set deliver the same success, result or summary, cost and changes.
C21_Deterministic ==
    SameObservation => promise = ex.promise

\* C22: after the 'close' event of the process no timer of the execution
\* fires, and no signal is sent to the process any more.
C22_TimersCancelledAfterClose ==
    [][ proc = "closed" =>
            /\ \A t \in DOMAIN timers : timers'[t] = "fired" => timers[t] = "fired"
            /\ signals' = signals ]_vars

\* C23: when the process has closed with status 0 before the ceiling elapsed
\* (the close handler cleared timeoutHandler) and the close handler has run to
\* its end, the outcome is a success.
C23_SuccessDespiteSlowDiff ==
    (exitCode = "zero" /\ timers.timeoutHandler = "cleared" /\ closePc = "done") =>
        promise.state = "resolved" /\ promise.success = "true"

\* C24: when the stream has closed, the payload held is the one a scan of the
\* whole output finds, however the output was cut into chunks.
C24_ChunkingIrrelevant ==
    proc = "closed" => jsonOutput = ScanLines(SelectNonBlank(Split(output)), Null)

\* the lines of the output that are not empty or all whitespace, in order
NonBlankLines == SelectNonBlank(Split(output))

\* the line begins with a completion phrase, whatever follows it
BeginsWithPhrase(line) == line # <<>> /\ Phrase(line[1]) # "none"

\* the line is a completion phrase, a space and at least one more character
PhraseAndText(line) == BeginsWithPhrase(line) /\ Len(line) >= 3 /\ line[2] = "SP"

\* C25 as stated: the summary is the first line that begins with a completion
\* phrase; without such a line the first non-empty line; without any line the
\* generic default.
C25_Summary_Original ==
    summary.returned =>
        LET lines == NonBlankLines
            hits == { i \in DOMAIN lines : BeginsWithPhrase(lines[i]) }
        IN  summary.text =
                IF hits # {} THEN lines[CHOOSE i \in hits : \A j \in hits : i <= j]
                ELSE IF lines # <<>> THEN lines[1]
                ELSE TaskCompleted

\* C25 amended: the summary is the first line, in output order, that consists
\* of a completion phrase (case ignored), a space and at least one more
\* character; without such a line the first line that is not empty or all
\* whitespace; without any such line the generic default.
C25_Summary ==
    summary.returned =>
        LET lines == NonBlankLines
            hits == { i \in DOMAIN lines : PhraseAndText(lines[i]) }
        IN  summary.text =
                IF hits # {} THEN lines[CHOOSE i \in hits : \A j \in hits : i <= j]
                ELSE IF lines # <<>> THEN lines[1]
                ELSE TaskCompleted

C25_Witness ==
    /\ summary.returned
    /\ output = Join(<< <<"Created">>, <<"FIXED", "SP", "y">>, <<"Created", "SP", "x">> >>)
    /\ summary.text = <<"FIXED", "SP", "y">>

GenericSummaries ==
    { <<"Task completed successfully">>,
      <<"Task completed successfully (with minor execution details)">> }

\* the message signals an execution error in its subtype without being
\* flagged as a hard error
SoftError(m) == m.subtype = "error_during_execution" /\ ~m.is_error

\* C26: the result text held after a 'result' message is a generic success
\* summary when the message is a soft error, else the message's own result
\* text when it has one, else a generic success summary; the success
\* delivered carries that text.
C26_ResultText ==
    (server = "sdk" /\ StoppedAtResult) =>
        /\ SoftError(TerminalMsg) => sdk.result \in GenericSummaries
        /\ (~SoftError(TerminalMsg) /\ TerminalMsg.result # NoText) =>
              sdk.result = TerminalMsg.result
        /\ (~SoftError(TerminalMsg) /\ TerminalMsg.result = NoText) =>
              sdk.result \in GenericSummaries
        /\ promise.state = "resolved" => promise.result = sdk.result
        /\ (hpc = "done" /\ req.endpoint = "execute") => resp.result = sdk.result

C26_Witness ==
    /\ server = "sdk" /\ StoppedAtResult /\ req.endpoint = "execute"
    /\ TerminalMsg.subtype = "error_during_execution" /\ TerminalMsg.is_error
    /\ TerminalMsg.result = <<"r1">>
    /\ hpc = "done" /\ resp.status = 200 /\ resp.result = <<"r1">>

\* an 'error' message is the one consumed last
StoppedAtError == server = "sdk" /\ spos > 0 /\ TerminalMsg.type = "error"

\* C27: once an 'error' message has been received the loop is over, the
\* outcome is a failure (success false) whose details carry the message's
\* error text, the request is answered 500 with it, and nothing that
\* follows in the stream is consumed or changes the outcome.
C27_ErrorMessageIsTerminal ==
    /\ [](StoppedAtError =>
            /\ sdk.pc = "done"
            /\ promise.state = "rejected" /\ promise.success = "false"
            /\ promise.details = <<"Claude Code SDK error: ">> \o TerminalMsg.error
            /\ (hpc = "done" /\ req.endpoint = "execute") =>
                  resp.status = 500 /\ resp.details = promise.details)
    /\ [][StoppedAtError => spos' = spos /\ promise' = promise /\ sdk' = sdk]_vars

C27_Witness ==
    /\ StoppedAtError /\ spos = 1 /\ Len(stream.msgs) = 2
    /\ stream.msgs[2].type = "result" /\ req.endpoint = "execute"
    /\ hpc = "done" /\ resp.status = 500

\* every message consumed so far is of a kind other than 'result' and 'error'
OnlyOtherKinds == \A i \in 1..spos : stream.msgs[i].type \notin {"result", "error"}

\* C28: consuming a message that is neither 'result' nor 'error' changes
\* neither the held result, cost and turn count nor the outcome, and the loop
\* goes on: after such messages only, the runner is where it started.
C28_OtherKindsAreNonTerminal ==
    /\ [][ (server = "sdk" /\ spos' = spos + 1
             /\ stream.msgs[spos'].type \notin {"result", "error"}) =>
                sdk' = sdk /\ promise' = promise /\ effects' = effects ]_vars
    /\ []((server = "sdk" /\ sdk.pc # "idle" /\ OnlyOtherKinds) =>
             /\ sdk.result = NoText /\ sdk.totalCost = 0 /\ sdk.turns = 0
             /\ sdk.pc = "loop" \/ spos = Len(stream.msgs))

C28_Witness ==
    /\ server = "sdk" /\ spos = 2 /\ req.endpoint = "execute"
    /\ stream.msgs[1] = OtherMsg /\ stream.msgs[2].type = "result"
    /\ stream.msgs[2].num_turns = 3
    /\ promise.state = "resolved" /\ promise.turns = 3
    /\ hpc = "done" /\ resp.status = 200

\* C29: the 'result' message the loop stopped at is the first terminal message
\* of the stream; result text, cost and turn count are its own, and no later
\* message is consumed or changes them or the outcome built from them.
C29_ResultTerminates ==
    /\ []((server = "sdk" /\ StoppedAtResult) =>
            /\ \A i \in 1..(spos - 1) : stream.msgs[i].type \notin {"result", "error"}
            /\ sdk.result = ResultOf(TerminalMsg)
            /\ sdk.totalCost = CostOf(TerminalMsg)
            /\ sdk.turns = TurnsOf(TerminalMsg)
            /\ promise.state = "resolved" =>
                  /\ promise.result = sdk.result
                  /\ promise.cost = sdk.totalCost /\ promise.turns = sdk.turns)
    /\ [][ (server = "sdk" /\ StoppedAtResult) =>
                /\ spos' = spos
                /\ sdk'.result = sdk.result /\ sdk'.totalCost = sdk.totalCost
                /\ sdk'.turns = sdk.turns ]_vars

C29_Witness ==
    /\ server = "sdk" /\ StoppedAtResult /\ spos = 1 /\ req.endpoint = "execute"
    /\ Len(stream.msgs) = 2 /\ stream.msgs[2].type = "error"
    /\ hpc = "done" /\ resp.status = 200 /\ resp.result = <<"r1">>

\* C30: every 'result' message ends in a success with a result text that is
\* not empty, the message flagged is_error and the message without a result
\* included; a failure comes from an 'error' message, from a stream that ends
\* without a 'result', or from an exception of the SDK, and from nothing else.
C30_ResultIsAlwaysSuccess ==
    server = "sdk" =>
        /\ StoppedAtResult =>
              /\ sdk.result # NoText
              /\ promise.state # "rejected"
              /\ sdk.pc = "done" =>
                    /\ promise.state = "resolved" /\ promise.success = "true"
                    /\ promise.result # NoText
        /\ promise.state = "rejected" =>
              \/ StoppedAtError
              \/ /\ OnlyOtherKinds /\ spos = Len(stream.msgs) /\ stream.end = "done"
                 /\ promise.details = NoResultReceived
              \/ /\ OnlyOtherKinds /\ spos = Len(stream.msgs) /\ stream.end = "throw"
                 /\ promise.details = SdkException

C30_Witness ==
    /\ server = "sdk" /\ StoppedAtResult /\ req.endpoint = "execute"
    /\ TerminalMsg.is_error /\ TerminalMsg.result = NoText
    /\ TerminalMsg.subtype = "success"
    /\ hpc = "done" /\ resp.status = 200 /\ resp.success = "true"
    /\ resp.result = <<"Task completed successfully">>


RECURSIVE TrimEach(_)
\* every line of a list without its surrounding whitespace
TrimEach(ls) == IF ls = <<>> THEN <<>> ELSE <<Trim(Head(ls))>> \o TrimEach(Tail(ls))

\* the lines of the tool's output that are not blank, in the tool's order, trimmed
EmittedPaths(out) == TrimEach(SelectNonBlank(Split(out)))

\* C31: when the change detector (SDK server) returns a record with changes,
\* its changedFiles are the lines the diff tool printed, in the tool's order,
\* each without surrounding whitespace, the empty and whitespace-only lines
\* left out, and nothing else added, dropped or moved.
C31_ChangedFilesAsEmitted ==
    (server = "sdk" /\ git.result.settled /\ git.result.hasChanges) =>
        git.result.changedFiles = EmittedPaths(git.output)

\* C32: in every record the change detector (SDK server) returns, hasChanges
\* is true exactly when changedFiles is not empty, and no entry of
\* changedFiles is empty or made of whitespace only.
C32_ChangeSetConsistent ==
    (server = "sdk" /\ git.result.settled) =>
        /\ git.result.hasChanges <=> git.result.changedFiles # <<>>
        /\ \A i \in DOMAIN git.result.changedFiles :
              Trim(git.result.changedFiles[i]) # <<>>

\* the tool printed a whitespace-only line between two paths
C32_Witness ==
    /\ server = "sdk" /\ git.result.settled /\ git.result.hasChanges
    /\ git.output = Join(<< <<"a">>, <<"SP">>, <<"b">> >>)
    /\ git.result.changedFiles = << <<"a">>, <<"b">> >>

\* C33: the change detector has a bound of its own: as long as it has started
\* and not yet returned, something is still going to happen to it (the tool
\* prints, ends or fails, or the detector's bound runs out), so that a diff
\* tool that never exits does not keep it, and the request, waiting for ever.
C33_DetectorIsBounded ==
    (git.pc = "running" /\ ~git.result.settled) => ENABLED NextDiff

\* C34: one invocation of the change detector yields one record: once the
\* diff process has ended in any way (it could not be spawned, it exited 0, it
\* exited non-zero) a record has been returned, and the record returned first
\* stays: when 'error' and 'close' both arrive, in either order, the later
\* event changes nothing.
C34_OneChangeSetPerInvocation ==
    /\ [](git.events # <<>> => git.result.settled)
    /\ [][git.result.settled => git'.result = git.result]_vars

\* 'close' arrived after 'error' and the record is still the one of 'error'
C34_Witness ==
    /\ server = "sdk" /\ git.env = "not installed"
    /\ git.events = <<"error", "close">>
    /\ git.result = [GitNotAvailable EXCEPT !.settled = TRUE]

\* C35: for a task request whose workingDirectory (codebase_path) does not
\* exist no backend execution is ever started, neither a process spawned nor
\* an SDK query issued, and the response the caller receives is an error.
C35_WorkingDirectoryMustExist ==
    (req.endpoint = "execute" /\ req.path = "missing") =>
        /\ effects.spawned = 0 /\ effects.queries = 0
        /\ proc = "none" /\ sdk.pc = "idle"
        /\ hpc = "done" => resp.status >= 400

\* the backend of an execution has failed: the promise of the execution was
\* rejected, or the process could not be started
ExecutionFailure == promise.state = "rejected" \/ crashed

\* C36: the handler of POST /api/claude-code answers every execution failure
\* (a backend error, a non-zero exit, a timeout, a missing result) with 500 and
\* a body that has error and details, and every success with 200: a failure is
\* never left without its answer, never answered 200, and a success never 500.
C36_TransportStatus ==
    req.endpoint = "execute" =>
        /\ (hpc = "done" /\ promise.state = "rejected") =>
              resp.status = 500 /\ resp.error # NoText /\ resp.details # NoText
        /\ (hpc = "done" /\ promise.state = "resolved") => resp.status = 200
        /\ (hpc = "executing" /\ ExecutionFailure) => ENABLED HandlerResume

\* the scratch directory and the handler position of test request i: of the
\* request whose callback is running, or of the other one
TestDirOf(i) == IF i = last THEN testDir ELSE ex.testDir

\* C37: two test requests in flight at the same time never share a scratch
\* directory: while both have their directory (created and not yet removed by
\* themselves) the two names differ, also when both read the same
\* millisecond, and the directory of each exists until its own request
\* removes it.
C37_DistinctScratchDirs ==
    /\ (TestDirOf(1) = "created" /\ TestDirOf(2) = "created") =>
          scratch.name[1] # scratch.name[2]
    /\ \A i \in {1, 2} :
          TestDirOf(i) = "created" => scratch.name[i] \in scratch.dirs

\* C38: once a request to the test endpoint has been answered, the scratch
\* directory it created has been removed, whether the test execution
\* succeeded or failed: no scratch directory outlives its request.
C38_ScratchDirRemoved ==
    (req.endpoint = "test" /\ hpc = "done" /\ testDir # "none") =>
        /\ testDir = "removed"
        /\ scratch.name[last] \notin scratch.dirs

====
